---- MODULE Spec2Model ----
(***************************************************************************)
(* A model of photos/add_exif_data_from_filename.py:                       *)
(*   - extract_datetime_from_filename, the filename-to-timestamp function, *)
(*     as operators over filenames (sequences of one-character strings);   *)
(*   - process_images, the batch loop, as a state machine with one action  *)
(*     per path through the loop body.                                     *)
(***************************************************************************)
EXTENDS Integers, Sequences, FiniteSets, TLC

VARIABLES
    listing,               \* os.listdir(directory): the entries, in listing order
    processed_dir,         \* "None" or the destination directory
    move,                  \* the move flag
    in_place,              \* the in_place flag
    replace_old_metadata,  \* the replace_old_metadata flag
    pc,                    \* position of the running function
    idx,                   \* number of directory entries the for loop has taken
    stats,                 \* the statistics record
    filename,              \* the filename being handled
    date_obj,              \* what extract_datetime_from_filename returned for it
    fs,                    \* the filesystem: path -> file
    log,                   \* the external operations the call has issued, in order
    returned               \* what the calls that returned gave: statistics, operations

vars == <<listing, processed_dir, move, in_place, replace_old_metadata,
          pc, idx, stats, filename, date_obj, fs, log, returned>>

(***************************************************************************)
(* Characters and strings.  A string is a sequence of 1-character strings. *)
(***************************************************************************)
DigitChars == <<"0", "1", "2", "3", "4", "5", "6", "7", "8", "9">>

\* \d
IsDigit(c) == \E n \in 1..10 : DigitChars[n] = c

\* [-._]
IsSep(c) == c \in {"-", ".", "_"}

DigitVal(c) == (CHOOSE n \in 1..10 : DigitChars[n] = c) - 1

RECURSIVE ParseInt(_)
\* int(s) for a string of digits
ParseInt(s) ==
    IF s = <<>> THEN 0
    ELSE 10 * ParseInt(SubSeq(s, 1, Len(s) - 1)) + DigitVal(s[Len(s)])

\* s[p : p + n] is n digits
DigitsAt(s, p, n) ==
    /\ p + n - 1 <= Len(s)
    /\ \A k \in p..(p + n - 1) : IsDigit(s[k])

\* [-._]? at p: the position after it
SkipSep(s, p) == IF p <= Len(s) /\ IsSep(s[p]) THEN p + 1 ELSE p

\* \d{n}[-._]?\d{2}[-._]?\d{2} matched at p: the position after the match, 0 for
\* no match.  A separator that is there has to be taken: no digit matches it.
TokenEnd(s, p, n) ==
    IF ~DigitsAt(s, p, n) THEN 0
    ELSE LET q == SkipSep(s, p + n)
         IN  IF ~DigitsAt(s, q, 2) THEN 0
             ELSE LET r == SkipSep(s, q + 2)
                  IN  IF ~DigitsAt(s, r, 2) THEN 0 ELSE r + 2

\* the start positions at which the date shape matches
DateStarts(s) == {p \in 1..Len(s) : TokenEnd(s, p, 4) # 0}

\* a search that keeps the last position that matches
SearchStartLast(s) == CHOOSE p \in DateStarts(s) : \A q \in DateStarts(s) : q <= p

\* the search starts at the leftmost position that matches
SearchStart(s) == CHOOSE p \in DateStarts(s) : \A q \in DateStarts(s) : p <= q

\* the start positions the group (?:.*(time))? can give its time token, after
\* the date token that ends before `from`: "." matches no line break
TimeStarts(s, from) ==
    {q \in from..Len(s) :
        /\ TokenEnd(s, q, 2) # 0
        /\ \A k \in from..(q - 1) : s[k] # "\n"}

\* ".*" is greedy: the time token is the last one
TimeStart(s, from) ==
    CHOOSE q \in TimeStarts(s, from) : \A r \in TimeStarts(s, from) : r <= q

\* re.search(pattern, filename): matched, group(1), group(2) (<<>> for None)
ReSearch(s) ==
    IF DateStarts(s) = {} THEN [matched |-> FALSE, g1 |-> <<>>, g2 |-> <<>>]
    ELSE LET p == SearchStart(s)
             e == TokenEnd(s, p, 4)
         IN  [matched |-> TRUE,
              g1 |-> SubSeq(s, p, e - 1),
              g2 |-> IF TimeStarts(s, e) = {} THEN <<>>
                     ELSE LET q == TimeStart(s, e)
                          IN  SubSeq(s, q, TokenEnd(s, q, 2) - 1)]

\* re.sub(r"\D", "", s)
StripNonDigits(s) == SelectSeq(s, IsDigit)

\* s.ljust(n, c)
Ljust(s, n, c) == IF Len(s) >= n THEN s ELSE s \o [k \in 1..(n - Len(s)) |-> c]

(***************************************************************************)
(* datetime.strptime.  The format is compiled to a regular expression, one *)
(* group per directive; each group tries its alternatives in order and the *)
(* match backtracks; then the whole string has to be consumed and the      *)
(* fields have to be a date and time of the calendar.                      *)
(***************************************************************************)
None == [tag |-> "None"]
ValueError == [tag |-> "ValueError"]

DateFormat == <<"Y", "m", "d">>
DateTimeFormat == <<"Y", "m", "d", "H", "M", "S">>

\* the alternative of directive f that takes its full width at p
WideOk(s, p, f) ==
    LET a == DigitVal(s[p])
        b == DigitVal(s[p + 1])
    IN  CASE f = "Y" -> DigitsAt(s, p, 4)
          [] f = "m" -> DigitsAt(s, p, 2) /\ ((a = 1 /\ b <= 2) \/ (a = 0 /\ b >= 1))
          [] f = "d" -> DigitsAt(s, p, 2) /\
                        ((a = 3 /\ b <= 1) \/ a \in {1, 2} \/ (a = 0 /\ b >= 1))
          [] f = "H" -> DigitsAt(s, p, 2) /\ ((a = 2 /\ b <= 3) \/ a <= 1)
          [] f = "M" -> DigitsAt(s, p, 2) /\ a <= 5
          [] f = "S" -> DigitsAt(s, p, 2) /\ ((a = 6 /\ b <= 1) \/ a <= 5)

\* the one-digit alternative of directive f at p
NarrowOk(s, p, f) ==
    CASE f = "Y" -> FALSE
      [] f \in {"m", "d"} -> DigitsAt(s, p, 1) /\ DigitVal(s[p]) >= 1
      [] f \in {"H", "M", "S"} -> DigitsAt(s, p, 1)

Width(f) == IF f = "Y" THEN 4 ELSE 2

RECURSIVE MatchFields(_, _, _)
\* the compiled format matched at p: the width each directive took in the first
\* match the backtracking finds
MatchFields(s, p, fmt) ==
    IF fmt = <<>> THEN [ok |-> TRUE, lens |-> <<>>]
    ELSE LET f == Head(fmt)
             wide == MatchFields(s, p + Width(f), Tail(fmt))
             narrow == MatchFields(s, p + 1, Tail(fmt))
         IN  IF WideOk(s, p, f) /\ wide.ok
                 THEN [ok |-> TRUE, lens |-> <<Width(f)>> \o wide.lens]
             ELSE IF NarrowOk(s, p, f) /\ narrow.ok
                 THEN [ok |-> TRUE, lens |-> <<1>> \o narrow.lens]
             ELSE [ok |-> FALSE, lens |-> <<>>]

RECURSIVE Sum(_)
Sum(ns) == IF ns = <<>> THEN 0 ELSE Head(ns) + Sum(Tail(ns))

\* the number the k-th directive matched
FieldValue(s, lens, k) ==
    LET start == 1 + Sum(SubSeq(lens, 1, k - 1))
    IN  ParseInt(SubSeq(s, start, start + lens[k] - 1))

IsLeap(y) == (y % 4 = 0) /\ ((y % 100 # 0) \/ (y % 400 = 0))

DaysInMonth(y, m) ==
    CASE m \in {1, 3, 5, 7, 8, 10, 12} -> 31
      [] m \in {4, 6, 9, 11} -> 30
      [] m = 2 -> IF IsLeap(y) THEN 29 ELSE 28

\* the datetime constructor's range checks
DatetimeOk(y, m, d, H, M, S) ==
    /\ y >= 1 /\ y <= 9999
    /\ m >= 1 /\ m <= 12
    /\ d >= 1 /\ d <= DaysInMonth(y, m)
    /\ H >= 0 /\ H <= 23
    /\ M >= 0 /\ M <= 59
    /\ S >= 0 /\ S <= 59

\* datetime.strptime(s, fmt): a datetime or a ValueError
Strptime(s, fmt) ==
    LET m == MatchFields(s, 1, fmt)
        val(k) == IF k <= Len(fmt) THEN FieldValue(s, m.lens, k) ELSE 0
    IN  IF ~m.ok THEN ValueError                  \* does not match format
        ELSE IF Sum(m.lens) # Len(s) THEN ValueError   \* unconverted data remains
        ELSE IF ~DatetimeOk(val(1), val(2), val(3), val(4), val(5), val(6))
            THEN ValueError
        ELSE [tag |-> "datetime", year |-> val(1), month |-> val(2), day |-> val(3),
              hour |-> val(4), minute |-> val(5), second |-> val(6)]

\* a date-only parse that gives nothing
DateOnlyParseGivingUp(cleaned_date_str) == None

\* the combined parse of lines 24-38: a datetime, or a ValueError to fall through
CombinedParse(cleaned_date_str, time_str) ==
    IF time_str = <<>> THEN ValueError
    ELSE Strptime(cleaned_date_str \o Ljust(StripNonDigits(time_str), 6, "0"),
                  DateTimeFormat)

\* the date-only parse of lines 40-45
DateOnlyParse(cleaned_date_str) ==
    LET d == Strptime(cleaned_date_str, DateFormat)
    IN  IF d.tag = "datetime" THEN d ELSE None

\* a failed combined parse that gives up instead of falling through
ExtractWithoutFallback(name) ==
    LET match == ReSearch(name)
        cleaned_date_str == StripNonDigits(match.g1)
    IN  IF ~match.matched THEN None
        ELSE IF match.g2 # <<>>
            THEN LET combined == CombinedParse(cleaned_date_str, match.g2)
                 IN  IF combined.tag = "datetime" THEN combined ELSE None
        ELSE DateOnlyParse(cleaned_date_str)

\* lines 8-45
extract_datetime_from_filename(name) ==
    LET match == ReSearch(name)
        cleaned_date_str == StripNonDigits(match.g1)
        combined == CombinedParse(cleaned_date_str, match.g2)
    IN  IF ~match.matched THEN None
        ELSE IF combined.tag = "datetime" THEN combined
        ELSE DateOnlyParse(cleaned_date_str)

(***************************************************************************)
(* The statistics record and the files.                                    *)
(***************************************************************************)
ZeroStats ==
    [total_files |-> 0, files_changed |-> 0, files_skipped_no_date |-> 0,
     files_skipped_existing_metadata |-> 0, files_metadata_replaced |-> 0,
     files_error |-> 0]

\* stats[key] += 1
Incr(st, key) == [st EXCEPT ![key] = @ + 1]

\* an entry that is counted once, but not as seen
CountedOutcomeOnly(st, key) == Incr(st, key)

\* line 68 and the one outcome counter of the entry's path
Counted(st, key) == Incr(Incr(st, "total_files"), key)

\* a path that holds no file, and a file with its date tags (<<>>: it has none)
Absent == [exists |-> FALSE, dates |-> <<>>]
File(dates) == [exists |-> TRUE, dates |-> dates]

\* date tags a file may carry before the run
OldDates == <<1999, 12, 31, 23, 59, 59>>

(***************************************************************************)
(* The filenames the extractor is applied to: every concatenation of a     *)
(* prefix, a year, a separator, a month, a separator, a day, a gap, a time *)
(* part and a suffix.                                                      *)
(***************************************************************************)
Prefixes == {<<>>, <<"I">>, <<"1">>}
YearParts == {<<"2", "0", "2", "3">>, <<"2", "0", "2", "4">>,
              <<"1", "9", "0", "0">>, <<"0", "0", "0", "0">>}
FirstSeps == {<<>>, <<"-">>, <<" ">>}
MonthParts == {<<"0", "2">>, <<"0", "4">>, <<"1", "3">>}
SecondSeps == {<<>>, <<".">>}
DayParts == {<<"1", "5">>, <<"2", "9">>, <<"3", "1">>}
Gaps == {<<>>, <<" ">>}
TimeParts == {<<>>,
              <<"1", "4">>,
              <<"1", "0", "1", "1">>,
              <<"1", "0", "1", "1", "1", "2">>,
              <<"1", "0", ".", "1", "1", ".", "1", "2">>,
              <<"2", "5", "6", "1", "9", "9">>,
              <<"2", "3", "5", "9", "6", "0">>,
              <<"1", "0", "1", "1", "1", "2", "_", "1", "3", "1", "4", "1", "5">>,
              <<"1", "0", "1", "1", "1", "2", "_", "9", "9", "9", "9", "9", "9">>,
              <<"1", "0", "1", "1", "1", "2", "\n", "1", "3", "1", "4", "1", "5">>}
Suffixes == {<<>>, <<"7">>, <<".", "j">>}

ExtractInputs ==
    {pre \o y \o s1 \o m \o s2 \o d \o g \o t \o suf :
        pre \in Prefixes, y \in YearParts, s1 \in FirstSeps, m \in MonthParts,
        s2 \in SecondSeps, d \in DayParts, g \in Gaps, t \in TimeParts,
        suf \in Suffixes}

\* the directory entries of the batch runs: no date, a date, a date that is no
\* calendar date, a date and a time
FileNames ==
    {<<"x", ".", "j">>,
     <<"2", "0", "2", "3", "0", "4", "1", "5", ".", "j">>,
     <<"2", "0", "2", "3", "1", "3", "1", "5", ".", "j">>,
     <<"2", "0", "2", "3", "-", "0", "4", "-", "1", "5", "_",
       "1", "0", "1", "1", "1", "2", ".", "j">>}

\* the longest directory listing
MaxFiles == 2

\* the listings: sequences of distinct entries
Listings ==
    UNION {{l \in [1..n -> FileNames] : \A i, j \in 1..n : l[i] = l[j] => i = j} :
              n \in 0..MaxFiles}

Range(l) == {l[i] : i \in 1..Len(l)}

\* the paths of a run over listing l
Paths(l) == {"directory", "processed"} \X Range(l)

\* the filesystems a run over l can start from: every entry is a file of the
\* source directory, with date tags or without; the destination holds none
InitialFilesystems(l) ==
    {f \in [Paths(l) -> {Absent, File(<<>>), File(OldDates)}] :
        \A name \in Range(l) : /\ f[<<"directory", name>>].exists
                               /\ ~f[<<"processed", name>>].exists}

\* process_images is called
Init ==
    /\ listing \in Listings
    /\ processed_dir \in {"None", "processed"}
    /\ move \in BOOLEAN
    /\ in_place \in BOOLEAN
    /\ replace_old_metadata \in BOOLEAN
    /\ pc = "start"
    /\ idx = 0
    /\ stats = ZeroStats
    /\ filename = <<>>
    /\ date_obj = None
    /\ fs \in InitialFilesystems(listing)
    /\ log = <<>>
    /\ returned = <<>>

(***************************************************************************)
(* process_images.                                                         *)
(***************************************************************************)
\* extract_datetime_from_filename on the directory entries of the batch runs
ExtractedDates == [name \in FileNames |-> extract_datetime_from_filename(name)]

\* os.path.join(directory, filename)
InputFile(name) == <<"directory", name>>

\* an output path that is the destination's even in place
OutputFileIgnoringInPlace(name) == <<processed_dir, name>>

\* os.path.join(processed_dir, filename) if not in_place else input_file
OutputFile(name) == IF in_place THEN InputFile(name) ELSE <<processed_dir, name>>

\* os.path.join(None, filename) raises TypeError
JoinRaises == ~in_place /\ processed_dir = "None"

\* the whole timestamp formatted, its time of day included
ExifDateWithTime(d) == <<d.year, d.month, d.day, d.hour, d.minute, d.second>>

\* date_obj.strftime("%Y:%m:%d 00:00:00")
ExifDate(d) == <<d.year, d.month, d.day, 0, 0, 0>>

\* one external operation, as issued
Event(op, path, to, value, out, ok) ==
    [op |-> op, path |-> path, to |-> to, value |-> value, out |-> out, ok |-> ok]

\* a query issued on the output file
QueryEventOnOutput(name, res) ==
    Event("query", OutputFile(name), OutputFile(name), <<>>, res.out, res.ok)

\* subprocess.run(check_command) on the input file: res.out is whether the
\* trimmed stdout is non-empty, res.ok whether the tool completed with status 0
QueryEvent(name, res) ==
    Event("query", InputFile(name), InputFile(name), <<>>, res.out, res.ok)

\* what the query can give for a file: its tags when it has some, nothing when
\* it has none; nothing and a non-zero status when the tool fails
QueryOutputs(f) ==
    {[out |-> f.dates # <<>>, ok |-> TRUE], [out |-> FALSE, ok |-> FALSE]}

\* no skip at all
SkipsExistingNever(out) == FALSE

\* a skip that does not look at the flag
SkipsExistingWhateverFlag(out) == out

\* a skip that does not look at what the query printed
SkipsExistingWhateverOutput(out) == ~replace_old_metadata

\* the flag read the wrong way round
SkipsExistingInverted(out) == out /\ replace_old_metadata

\* result.stdout.strip() and not replace_old_metadata
SkipsExisting(out) == out /\ ~replace_old_metadata

\* shutil.move / shutil.copy2 of the input file to the output file
PlaceEvents(name, ok) ==
    IF in_place THEN <<>>
    ELSE <<Event(IF move THEN "move" ELSE "copy", InputFile(name), OutputFile(name),
                 <<>>, FALSE, ok)>>

\* a move that leaves the source where it was
PlacedKeepingSource(f, name) ==
    IF in_place THEN f ELSE [f EXCEPT ![OutputFile(name)] = f[InputFile(name)]]

\* the filesystem after a placement that succeeded
Placed(f, name) ==
    IF in_place THEN f
    ELSE IF move THEN [f EXCEPT ![OutputFile(name)] = f[InputFile(name)],
                                ![InputFile(name)] = Absent]
    ELSE [f EXCEPT ![OutputFile(name)] = f[InputFile(name)]]

\* subprocess.run(command, check=True) on the output file
WriteEvent(name, value, ok) ==
    Event("write", OutputFile(name), OutputFile(name), value, FALSE, ok)

\* the filesystem after a write that succeeded: both tags are set
Written(f, name, value) == [f EXCEPT ![OutputFile(name)].dates = value]

\* every file with replacement enabled counted as replaced
CountsAsReplacedByFlagOnly(out) == replace_old_metadata

\* result.stdout.strip() and replace_old_metadata, after the write
CountsAsReplaced(out) == out /\ replace_old_metadata

\* lines 55-65: the destination is made, the counters start at zero
Begin ==
    /\ pc = "start"
    /\ pc' = "loop"
    /\ stats' = ZeroStats
    /\ log' = IF ~in_place /\ processed_dir # "None"
              THEN Append(log, Event("makedirs", <<processed_dir, <<>>>>,
                                     <<processed_dir, <<>>>>, <<>>, FALSE, TRUE))
              ELSE log
    /\ UNCHANGED <<listing, processed_dir, move, in_place, replace_old_metadata,
                   idx, filename, date_obj, fs, returned>>

\* the for loop takes its next entry
Takes(name) ==
    /\ pc = "loop"
    /\ idx < Len(listing)
    /\ name = listing[idx + 1]
    /\ idx' = idx + 1
    /\ filename' = name
    /\ UNCHANGED <<listing, processed_dir, move, in_place, replace_old_metadata,
                   returned>>

\* lines 68-72 with processed_dir None and not in place: the join raises
JoinFails ==
    \E name \in FileNames :
        /\ Takes(name)
        /\ JoinRaises
        /\ stats' = Incr(stats, "total_files")
        /\ pc' = "crashed"
        /\ UNCHANGED <<date_obj, fs, log>>

\* the query issued before the date is looked at
SkipNoDateAfterQuery ==
    \E name \in FileNames :
        /\ Takes(name)
        /\ ~JoinRaises
        /\ date_obj' = ExtractedDates[name]
        /\ date_obj' = None
        /\ log' = Append(log, QueryEvent(name, [out |-> FALSE, ok |-> TRUE]))
        /\ stats' = Counted(stats, "files_skipped_no_date")
        /\ pc' = "loop"
        /\ UNCHANGED fs

\* lines 68-79: no date in the filename
SkipNoDate ==
    \E name \in FileNames :
        /\ Takes(name)
        /\ ~JoinRaises
        /\ date_obj' = ExtractedDates[name]
        /\ date_obj' = None
        /\ stats' = Counted(stats, "files_skipped_no_date")
        /\ pc' = "loop"
        /\ UNCHANGED <<fs, log>>

\* lines 68-98: the file has date tags and they are not to be replaced
SkipExisting ==
    \E name \in FileNames : \E res \in [out : BOOLEAN, ok : BOOLEAN] :
        /\ Takes(name)
        /\ ~JoinRaises
        /\ date_obj' = ExtractedDates[name]
        /\ date_obj' # None
        /\ res \in QueryOutputs(fs[InputFile(name)])
        /\ SkipsExisting(res.out)
        /\ log' = Append(log, QueryEvent(name, res))
        /\ stats' = Counted(stats, "files_skipped_existing_metadata")
        /\ pc' = "loop"
        /\ UNCHANGED fs

\* lines 68-107: shutil.move or shutil.copy2 raises, and nothing catches it
PlaceFails ==
    \E name \in FileNames : \E res \in [out : BOOLEAN, ok : BOOLEAN] :
        /\ Takes(name)
        /\ ~JoinRaises
        /\ date_obj' = ExtractedDates[name]
        /\ date_obj' # None
        /\ res \in QueryOutputs(fs[InputFile(name)])
        /\ ~SkipsExisting(res.out)
        /\ ~in_place
        /\ log' = log \o <<QueryEvent(name, res)>> \o PlaceEvents(name, FALSE)
        /\ stats' = Incr(stats, "total_files")
        /\ pc' = "crashed"
        /\ UNCHANGED fs

\* lines 68-126: the file is placed and the write succeeds
WriteOk ==
    \E name \in FileNames : \E res \in [out : BOOLEAN, ok : BOOLEAN] :
        /\ Takes(name)
        /\ ~JoinRaises
        /\ date_obj' = ExtractedDates[name]
        /\ date_obj' # None
        /\ res \in QueryOutputs(fs[InputFile(name)])
        /\ ~SkipsExisting(res.out)
        /\ log' = log \o <<QueryEvent(name, res)>> \o PlaceEvents(name, TRUE)
                      \o <<WriteEvent(name, ExifDate(date_obj'), TRUE)>>
        /\ fs' = Written(Placed(fs, name), name, ExifDate(date_obj'))
        /\ stats' = Counted(stats, IF CountsAsReplaced(res.out)
                                  THEN "files_metadata_replaced"
                                  ELSE "files_changed")
        /\ pc' = "loop"

\* a failed write that undoes the placement
WriteFailsRolledBack ==
    \E name \in FileNames : \E res \in [out : BOOLEAN, ok : BOOLEAN] :
        /\ Takes(name)
        /\ ~JoinRaises
        /\ date_obj' = ExtractedDates[name]
        /\ date_obj' # None
        /\ res \in QueryOutputs(fs[InputFile(name)])
        /\ ~SkipsExisting(res.out)
        /\ log' = log \o <<QueryEvent(name, res)>> \o PlaceEvents(name, TRUE)
                      \o <<WriteEvent(name, ExifDate(date_obj'), FALSE)>>
        /\ stats' = Counted(stats, "files_error")
        /\ pc' = "loop"
        /\ UNCHANGED fs

\* lines 68-129: the file is placed and the write fails (CalledProcessError)
WriteFails ==
    \E name \in FileNames : \E res \in [out : BOOLEAN, ok : BOOLEAN] :
        /\ Takes(name)
        /\ ~JoinRaises
        /\ date_obj' = ExtractedDates[name]
        /\ date_obj' # None
        /\ res \in QueryOutputs(fs[InputFile(name)])
        /\ ~SkipsExisting(res.out)
        /\ log' = log \o <<QueryEvent(name, res)>> \o PlaceEvents(name, TRUE)
                      \o <<WriteEvent(name, ExifDate(date_obj'), FALSE)>>
        /\ fs' = Placed(fs, name)
        /\ stats' = Counted(stats, "files_error")
        /\ pc' = "loop"

\* line 131: the listing is exhausted
Return ==
    /\ pc = "loop"
    /\ idx = Len(listing)
    /\ pc' = "done"
    /\ returned' = Append(returned, [stats |-> stats, log |-> log])
    /\ UNCHANGED <<listing, processed_dir, move, in_place, replace_old_metadata,
                   idx, stats, filename, date_obj, fs, log>>

Next == Begin \/ JoinFails \/ SkipNoDate \/ SkipExisting \/ PlaceFails
           \/ WriteOk \/ WriteFails \/ Return

Spec == Init /\ [][Next]_vars

(***************************************************************************)
(* process_images called again and again on one directory, in place and     *)
(* without replacement.                                                     *)
(***************************************************************************)
\* the calls, in order
Runs == <<"first", "second", "third">>

\* in place no entry leaves the directory and none appears in it: the next call
\* lists the same entries and finds the files as the last call left them
Rerun ==
    /\ pc = "done"
    /\ in_place
    /\ Len(returned) < Len(Runs)
    /\ pc' = "start"
    /\ idx' = 0
    /\ stats' = ZeroStats
    /\ filename' = <<>>
    /\ date_obj' = None
    /\ log' = <<>>
    /\ UNCHANGED <<listing, processed_dir, move, in_place, replace_old_metadata,
                   fs, returned>>

InitRerun ==
    /\ Init
    /\ in_place
    /\ ~replace_old_metadata
    /\ ~move
    /\ processed_dir = "None"

\* in place nothing is joined to processed_dir and nothing is copied or moved
NextRerun == Begin \/ SkipNoDate \/ SkipExisting \/ WriteOk \/ WriteFails
                \/ Return \/ Rerun

SpecRerun == InitRerun /\ [][NextRerun]_vars

(***************************************************************************)
(* The extractor on its own: one call on one filename.                     *)
(***************************************************************************)
InitExtract ==
    /\ filename \in ExtractInputs
    /\ date_obj = None
    /\ pc = "call"
    /\ listing = <<>>
    /\ processed_dir = "None"
    /\ move = FALSE
    /\ in_place = FALSE
    /\ replace_old_metadata = FALSE
    /\ idx = 0
    /\ stats = ZeroStats
    /\ fs = <<>>
    /\ log = <<>>
    /\ returned = <<>>

\* date_obj = extract_datetime_from_filename(filename)
CallExtract ==
    /\ pc = "call"
    /\ date_obj' = extract_datetime_from_filename(filename)
    /\ pc' = "returned"
    /\ UNCHANGED <<listing, processed_dir, move, in_place, replace_old_metadata,
                   idx, stats, filename, fs, log, returned>>

NextExtract == CallExtract

SpecExtract == InitExtract /\ [][NextExtract]_vars

(***************************************************************************)
(* Properties of process_images.                                           *)
(***************************************************************************)
\* the step handles one directory entry
HandlesEntry == pc = "loop" /\ idx' = idx + 1

\* the external operations the step issues, in order
Issued == SubSeq(log', Len(log) + 1, Len(log'))

\* the step's metadata query printed something (out), or nothing
QueryReported(out) == Issued # <<>> /\ Issued[1].op = "query" /\ Issued[1].out = out

WriteIssued == \E k \in 1..Len(Issued) : Issued[k].op = "write"

WriteSucceeded == \E k \in 1..Len(Issued) : Issued[k].op = "write" /\ Issued[k].ok

PlacementFailed ==
    \E k \in 1..Len(Issued) : Issued[k].op \in {"copy", "move"} /\ ~Issued[k].ok

PlacementSucceeded ==
    \E k \in 1..Len(Issued) : Issued[k].op \in {"copy", "move"} /\ Issued[k].ok

OutcomeSum(st) ==
    st.files_changed + st.files_metadata_replaced + st.files_skipped_no_date
        + st.files_skipped_existing_metadata + st.files_error

\* C1: at the start of every loop iteration and when process_images returns,
\* total_files is the sum of the five outcome counters.
C1_TotalIsSumOfOutcomes ==
    pc \in {"loop", "done"} => stats.total_files = OutcomeSum(stats)

\* a run that returned after one write failed and one succeeded
C1_Witness ==
    /\ pc = "done"
    /\ stats.total_files = 2
    /\ stats.files_error = 1
    /\ stats.files_changed = 1

\* C2: a file with a date in its name, whose query reports date metadata, with
\* replace_old_metadata false: only the query is issued (no copy, no move, no
\* write), the filesystem is as before, and only total_files and
\* files_skipped_existing_metadata are incremented.
C2_SkipExistingHasNoEffect ==
    [][(HandlesEntry /\ date_obj' # None /\ QueryReported(TRUE)
            /\ ~replace_old_metadata)
        => /\ Len(Issued) = 1
           /\ fs' = fs
           /\ stats' = [stats EXCEPT !.total_files = @ + 1,
                                     !.files_skipped_existing_metadata = @ + 1]]_vars

\* a file was skipped for its existing metadata
C2_Witness ==
    /\ pc = "loop"
    /\ ~replace_old_metadata
    /\ stats.files_skipped_existing_metadata = 1
    /\ log # <<>>
    /\ log[Len(log)].op = "query"
    /\ log[Len(log)].out
    /\ fs[InputFile(filename)] = File(OldDates)

\* what C3 says of the two counters after a write that succeeded
C3_Counting ==
    /\ (QueryReported(TRUE) /\ replace_old_metadata /\ WriteSucceeded)
        => /\ stats'.files_metadata_replaced = stats.files_metadata_replaced + 1
           /\ stats'.files_changed = stats.files_changed
    /\ (QueryReported(FALSE) /\ WriteSucceeded)
        => /\ stats'.files_changed = stats.files_changed + 1
           /\ stats'.files_metadata_replaced = stats.files_metadata_replaced

C4_PlacementThenWrite ==
    [][(HandlesEntry /\ ~in_place /\ date_obj' # None
            /\ fs[InputFile(filename')] = File(<<>>)
            /\ PlacementSucceeded /\ WriteSucceeded)
        => /\ fs'[<<processed_dir, filename'>>]
                = File(<<date_obj'.year, date_obj'.month, date_obj'.day, 0, 0, 0>>)
           /\ move => ~fs'[<<"directory", filename'>>].exists
           /\ ~move => fs'[<<"directory", filename'>>] = File(<<>>)]_vars

\* a file without metadata was moved and written
C4_Witness ==
    /\ ~in_place
    /\ move
    /\ pc = "loop"
    /\ idx > 0
    /\ ~fs[<<"directory", filename>>].exists
    /\ fs[<<"processed", filename>>] = File(<<2023, 4, 15, 0, 0, 0>>)
    /\ stats.files_changed = 1

\* C5: a copy, move or write that failed ended only the handling of its file:
\* the run goes on to the next entry, or has returned its statistics.
C5_FailureIsLocal ==
    \A k \in 1..Len(log) :
        (log[k].op \in {"copy", "move", "write"} /\ ~log[k].ok)
            => pc \in {"loop", "done"}

\* no copy or move raised
NoPlacementRaised ==
    \A k \in 1..Len(log) : log[k].op \in {"copy", "move"} => log[k].ok

\* C6: when every external operation completes, a run that has ended has
\* returned, having taken every entry of the listing once, and total_files is
\* the number of entries.
C6_EndsReturningWithEveryEntryCounted ==
    (pc \in {"done", "crashed"} /\ NoPlacementRaised)
        => /\ pc = "done"
           /\ idx = Len(listing)
           /\ stats.total_files = Len(listing)

\* C7: a file for which extract_datetime_from_filename returns None: no
\* external operation is issued (no query, no copy or move, no write), the
\* filesystem is as before, and only total_files and files_skipped_no_date are
\* incremented.  The extractor is called once the output path is computed.
C7_SkipNoDateHasNoEffect ==
    [][(HandlesEntry /\ ~JoinRaises /\ date_obj' = None)
        => /\ Issued = <<>>
           /\ fs' = fs
           /\ stats' = [stats EXCEPT !.total_files = @ + 1,
                                     !.files_skipped_no_date = @ + 1]]_vars

\* a file without a date was skipped, in a run that had written another
C7_Witness ==
    /\ pc = "loop"
    /\ idx = 2
    /\ extract_datetime_from_filename(filename) = None
    /\ stats.files_skipped_no_date = 1
    /\ stats.files_changed = 1
    /\ Len(log) >= 2

\* C11: a file that reaches the write step: one query on the input path, then
\* (not in place) one copy or move from the input path to the output path,
\* then one write on the output path, in this order and nothing else; after a
\* write that succeeded the file counts as replaced exactly when that one
\* query printed something and replace_old_metadata is set.
C11_QueryThenPlacementThenWrite ==
    [][(HandlesEntry /\ WriteIssued)
        => LET input == <<"directory", filename'>>
               output == IF in_place THEN input ELSE <<processed_dir, filename'>>
               last == Len(Issued)
           IN  /\ last = IF in_place THEN 2 ELSE 3
               /\ Issued[1].op = "query"
               /\ Issued[1].path = input
               /\ ~in_place => /\ Issued[2].op = IF move THEN "move" ELSE "copy"
                               /\ Issued[2].path = input
                               /\ Issued[2].to = output
               /\ Issued[last].op = "write"
               /\ Issued[last].path = output
               /\ Issued[last].ok
                    => (stats'.files_metadata_replaced
                            = stats.files_metadata_replaced + 1)
                        <=> (Issued[1].out /\ replace_old_metadata)]_vars

\* the last three operations are a query, a copy and a write of one file
C11_Witness ==
    /\ Len(log) >= 3
    /\ log[Len(log) - 2].op = "query"
    /\ log[Len(log) - 2].path = <<"directory", filename>>
    /\ log[Len(log) - 1].op = "copy"
    /\ log[Len(log) - 1].to = <<"processed", filename>>
    /\ log[Len(log)].op = "write"
    /\ log[Len(log)].path = <<"processed", filename>>

\* C12: a write that fails: files_error and total_files are incremented and no
\* other counter; the placement stays (after a move the source path holds
\* nothing and the destination holds the file, after a copy both hold it); the
\* loop goes on.
C12_WriteFailureCountsAndKeepsPlacement ==
    [][(HandlesEntry /\ WriteIssued /\ ~WriteSucceeded)
        => /\ stats' = [stats EXCEPT !.total_files = @ + 1, !.files_error = @ + 1]
           /\ pc' = "loop"
           /\ ~in_place
                => /\ fs'[<<processed_dir, filename'>>] = fs[<<"directory", filename'>>]
                   /\ move => ~fs'[<<"directory", filename'>>].exists
                   /\ ~move => fs'[<<"directory", filename'>>]
                                    = fs[<<"directory", filename'>>]]_vars

\* a file was moved and its write failed
C12_Witness ==
    /\ ~in_place
    /\ move
    /\ pc = "loop"
    /\ stats.files_error = 1
    /\ log # <<>>
    /\ log[Len(log)].op = "write"
    /\ ~log[Len(log)].ok
    /\ ~fs[<<"directory", filename>>].exists
    /\ fs[<<"processed", filename>>].exists

\* the filename a path ends with
NameOf(path) == path[2]

\* C13: every write carries the year, month and day extracted from the
\* filename, followed by 00:00:00; writes for two filenames with the same date
\* carry the same value, whatever their times.
C13_OnlyTheDateIsWritten ==
    /\ \A k \in 1..Len(log) :
           log[k].op = "write"
               => LET d == ExtractedDates[NameOf(log[k].path)]
                  IN  log[k].value = <<d.year, d.month, d.day, 0, 0, 0>>
    /\ \A j, k \in 1..Len(log) :
           (/\ log[j].op = "write"
            /\ log[k].op = "write"
            /\ LET dj == ExtractedDates[NameOf(log[j].path)]
                   dk == ExtractedDates[NameOf(log[k].path)]
               IN  dj.year = dk.year /\ dj.month = dk.month /\ dj.day = dk.day)
               => log[j].value = log[k].value

\* two files with the same date, one with a time of day, were written
C13_Witness ==
    \E j, k \in 1..Len(log) :
        /\ log[j].op = "write"
        /\ log[k].op = "write"
        /\ ExtractedDates[NameOf(log[j].path)].hour = 0
        /\ ExtractedDates[NameOf(log[k].path)].hour = 10
        /\ log[j].value = log[k].value

\* the step's query printed nothing, whether it completed or failed
QueryPrintedNothing == Issued # <<>> /\ Issued[1].op = "query" /\ ~Issued[1].out

\* such a file is not skipped for existing metadata: it goes on to its
\* placement (in place: to its write), and a write that succeeds counts it as
\* changed
C15_TreatedAsNoMetadata ==
    /\ stats'.files_skipped_existing_metadata = stats.files_skipped_existing_metadata
    /\ Len(Issued) >= 2
    /\ Issued[2].op = IF in_place THEN "write" ELSE IF move THEN "move" ELSE "copy"
    /\ WriteSucceeded
        => /\ stats'.files_changed = stats.files_changed + 1
           /\ stats'.files_metadata_replaced = stats.files_metadata_replaced

C16_InPlaceTouchesOnlyTheSource ==
    in_place
        => /\ \A k \in 1..Len(log) :
                /\ log[k].op \notin {"copy", "move", "makedirs"}
                /\ log[k].op = "write"
                    => log[k].path = <<"directory", NameOf(log[k].path)>>
           /\ \A name \in Range(listing) :
                /\ fs[<<"directory", name>>].exists
                /\ ~fs[<<"processed", name>>].exists

\* an in-place run with the move flag and a destination given wrote a file
C16_Witness ==
    /\ in_place
    /\ move
    /\ processed_dir = "processed"
    /\ pc = "done"
    /\ stats.files_changed = 1
    /\ stats.files_error = 1

\* C17: files_metadata_replaced is non-zero only with replace_old_metadata
\* set, files_skipped_existing_metadata only with it unset: the two are never
\* both non-zero.
C17_ReplacedAndSkippedExclude ==
    /\ stats.files_metadata_replaced > 0 => replace_old_metadata
    /\ stats.files_skipped_existing_metadata > 0 => ~replace_old_metadata
    /\ ~(stats.files_metadata_replaced > 0
            /\ stats.files_skipped_existing_metadata > 0)

\* a run that replaced the metadata of two files
C17_Witness ==
    /\ pc = "done"
    /\ stats.files_metadata_replaced = 2
    /\ stats.files_skipped_existing_metadata = 0

(***************************************************************************)
(* Properties of extract_datetime_from_filename.                           *)
(***************************************************************************)
\* the shape of the pattern at p, with n leading digits: each of the two
\* optional separators there or not
ShapeAt(s, p, n) ==
    \E a, b \in {0, 1} :
        /\ DigitsAt(s, p, n)
        /\ a = 1 => (p + n <= Len(s) /\ IsSep(s[p + n]))
        /\ DigitsAt(s, p + n + a, 2)
        /\ b = 1 => (p + n + a + 2 <= Len(s) /\ IsSep(s[p + n + a + 2]))
        /\ DigitsAt(s, p + n + a + 2 + b, 2)

ShapeStarts(s) == {p \in 1..Len(s) : ShapeAt(s, p, 4)}

Leftmost(s) == CHOOSE p \in ShapeStarts(s) : \A q \in ShapeStarts(s) : p <= q

\* the year, month and day of the date-shaped token at p: its eight digits
DateAt(s, p) ==
    LET last == IF p + 9 <= Len(s) THEN p + 9 ELSE Len(s)
        ds == StripNonDigits(SubSeq(s, p, last))
    IN  [year |-> ParseInt(SubSeq(ds, 1, 4)),
         month |-> ParseInt(SubSeq(ds, 5, 6)),
         day |-> ParseInt(SubSeq(ds, 7, 8))]

\* a date of the calendar
ValidDate(d) ==
    /\ d.year >= 1
    /\ d.month \in 1..12
    /\ d.day >= 1
    /\ d.day <= DaysInMonth(d.year, d.month)

\* a time-shaped token follows the date-shaped token at p
TimeTokenAfter(s, p) == \E q \in TokenEnd(s, p, 4)..Len(s) : ShapeAt(s, q, 2)

\* what C8 says of the date token at p
ReturnsDateAt(s, p) ==
    /\ date_obj.tag = "datetime"
    /\ date_obj.year = DateAt(s, p).year
    /\ date_obj.month = DateAt(s, p).month
    /\ date_obj.day = DateAt(s, p).day
    /\ ~TimeTokenAfter(s, p)
        => date_obj.hour = 0 /\ date_obj.minute = 0 /\ date_obj.second = 0

\* C8 as stated: whenever the filename contains a date-shaped token that is a
\* valid calendar date, the result has that year, month and day, and is at
\* 00:00:00 when no time token follows.
C8_AnyValidDateTokenIsReturned ==
    pc = "returned"
        => \A p \in ShapeStarts(filename) :
               ValidDate(DateAt(filename, p)) => ReturnsDateAt(filename, p)

\* C8, amended: when the leftmost date-shaped token of the filename is a valid
\* calendar date, the result has that year, month and day, and is at 00:00:00
\* when no time token follows it.
C8_LeftmostValidDateIsReturned ==
    (pc = "returned" /\ ShapeStarts(filename) # {}
        /\ ValidDate(DateAt(filename, Leftmost(filename))))
        => ReturnsDateAt(filename, Leftmost(filename))

\* "I2024-02.29.j" gave 2024-02-29 00:00:00
C8_Witness ==
    /\ pc = "returned"
    /\ filename = <<"I", "2", "0", "2", "4", "-", "0", "2", ".", "2", "9", ".", "j">>
    /\ date_obj = [tag |-> "datetime", year |-> 2024, month |-> 2, day |-> 29,
                   hour |-> 0, minute |-> 0, second |-> 0]

\* the characters after the leftmost date-shaped token
AfterDate(s) == SubSeq(s, TokenEnd(s, Leftmost(s), 4), Len(s))

\* the filename has, after a valid leftmost date token, one run of one to five
\* digits and no other digit
ShortTimeRun(s) ==
    /\ ShapeStarts(s) # {}
    /\ ValidDate(DateAt(s, Leftmost(s)))
    /\ LET rest == AfterDate(s)
           run == StripNonDigits(rest)
       IN  /\ Len(run) \in 1..5
           /\ \E i \in 1..Len(rest) : SubSeq(rest, i, i + Len(run) - 1) = run

\* the run, zero-padded on the right to six digits
PaddedRun(s) == Ljust(StripNonDigits(AfterDate(s)), 6, "0")

\* C9: a valid date token followed by a time run of fewer than six digits: the
\* time of the result is the run zero-padded on the right ("14" -> 14:00:00).
C9_ShortTimeRunIsRightPadded ==
    (/\ pc = "returned"
     /\ ShortTimeRun(filename)
     /\ ParseInt(SubSeq(PaddedRun(filename), 1, 2)) <= 23
     /\ ParseInt(SubSeq(PaddedRun(filename), 3, 4)) <= 59
     /\ ParseInt(SubSeq(PaddedRun(filename), 5, 6)) <= 59)
        => /\ date_obj.tag = "datetime"
           /\ date_obj.hour = ParseInt(SubSeq(PaddedRun(filename), 1, 2))
           /\ date_obj.minute = ParseInt(SubSeq(PaddedRun(filename), 3, 4))
           /\ date_obj.second = ParseInt(SubSeq(PaddedRun(filename), 5, 6))

\* C10: the result is None exactly when no substring of the filename has the
\* date shape or the leftmost date-shaped token is no valid calendar date;
\* otherwise it is a timestamp.
C10_NoneIffNoValidDateToken ==
    pc = "returned"
        => /\ (date_obj = None)
                <=> (\/ ShapeStarts(filename) = {}
                     \/ ~ValidDate(DateAt(filename, Leftmost(filename))))
           /\ date_obj # None => date_obj.tag = "datetime"

\* "20230229.j" has a date-shaped token that is no date, and gave None
C10_Witness ==
    /\ pc = "returned"
    /\ filename = <<"2", "0", "2", "3", "0", "2", "2", "9", ".", "j">>
    /\ date_obj = None

\* the hour, minute and second of the time-shaped token at q: its six digits
TimeAt(s, q) ==
    LET last == IF q + 7 <= Len(s) THEN q + 7 ELSE Len(s)
        ds == StripNonDigits(SubSeq(s, q, last))
    IN  [hour |-> ParseInt(SubSeq(ds, 1, 2)),
         minute |-> ParseInt(SubSeq(ds, 3, 4)),
         second |-> ParseInt(SubSeq(ds, 5, 6))]

\* a time of the day
ValidTime(t) == t.hour <= 23 /\ t.minute <= 59 /\ t.second <= 59

\* the date d at the time t
At(d, t) ==
    [tag |-> "datetime", year |-> d.year, month |-> d.month, day |-> d.day,
     hour |-> t.hour, minute |-> t.minute, second |-> t.second]

Midnight == [hour |-> 0, minute |-> 0, second |-> 0]

\* the time token the search found, <<>> when it found none
FoundTime(s) == ReSearch(s).g2

\* C14: a time token was found, its digits are no time of the day and the date
\* digits are a calendar date: the result is that date at 00:00:00.  With a time
\* token found the result is None only when the date digits are no calendar
\* date.
C14_InvalidTimeFallsBackToMidnight ==
    (pc = "returned" /\ ShapeStarts(filename) # {} /\ FoundTime(filename) # <<>>)
        => LET d == DateAt(filename, Leftmost(filename))
               t == TimeAt(FoundTime(filename), 1)
           IN  /\ (ValidDate(d) /\ ~ValidTime(t)) => date_obj = At(d, Midnight)
               /\ date_obj = None => ~ValidDate(d)

\* "20230415 256199.j": hour 25, and the result is 2023-04-15 00:00:00
C14_Witness ==
    /\ pc = "returned"
    /\ filename = <<"2", "0", "2", "3", "0", "4", "1", "5", " ",
                    "2", "5", "6", "1", "9", "9", ".", "j">>
    /\ FoundTime(filename) = <<"2", "5", "6", "1", "9", "9">>
    /\ date_obj = [tag |-> "datetime", year |-> 2023, month |-> 4, day |-> 15,
                   hour |-> 0, minute |-> 0, second |-> 0]

\* the starts of the time-shaped tokens after the leftmost date-shaped token
TimeShapeStarts(s) ==
    {q \in TokenEnd(s, Leftmost(s), 4)..Len(s) : ShapeAt(s, q, 2)}

LastTimeShape(s) ==
    CHOOSE q \in TimeShapeStarts(s) : \A r \in TimeShapeStarts(s) : r <= q

\* C19: more than one time-shaped token after the leftmost date token, which
\* is a calendar date: the time of the result is that of the last of them in
\* the filename, and 00:00:00 when the last one is no time of the day, whatever
\* the earlier ones are.
C19_LastTimeTokenIsUsed ==
    (/\ pc = "returned"
     /\ ShapeStarts(filename) # {}
     /\ ValidDate(DateAt(filename, Leftmost(filename)))
     /\ Cardinality(TimeShapeStarts(filename)) > 1)
        => LET d == DateAt(filename, Leftmost(filename))
               t == TimeAt(filename, LastTimeShape(filename))
           IN  date_obj = At(d, IF ValidTime(t) THEN t ELSE Midnight)

\* C19 where no line break stands between the date token and the last
\* time-shaped token
C19_LastTimeTokenOfTheLineIsUsed ==
    (/\ pc = "returned"
     /\ ShapeStarts(filename) # {}
     /\ ValidDate(DateAt(filename, Leftmost(filename)))
     /\ Cardinality(TimeShapeStarts(filename)) > 1
     /\ \A k \in 1..LastTimeShape(filename) : filename[k] # "\n")
        => LET d == DateAt(filename, Leftmost(filename))
               t == TimeAt(filename, LastTimeShape(filename))
           IN  date_obj = At(d, IF ValidTime(t) THEN t ELSE Midnight)

(***************************************************************************)
(* Properties of repeated calls.                                           *)
(***************************************************************************)
\* the events of a call that are the operation op
EventsOf(run, op) == {k \in 1..Len(run.log) : run.log[k].op = op}

\* the entries a call wrote with success: without replacement, those it
\* counted as changed
ChangedIn(run) ==
    {NameOf(run.log[k].path) : k \in {j \in EventsOf(run, "write") : run.log[j].ok}}

\* the entries a call issued a write on
WriteIssuedIn(run) == {NameOf(run.log[k].path) : k \in EventsOf(run, "write")}

\* the entries whose query printed tags in a call: without replacement, those
\* it skipped for existing metadata
FoundTaggedIn(run) ==
    {NameOf(run.log[k].path) : k \in {j \in EventsOf(run, "query") : run.log[j].out}}

\* the contract of the tool: a query on a file that an earlier call wrote with
\* success prints its tags
ContractHeld ==
    \A r \in 2..Len(returned) : \A k \in EventsOf(returned[r], "query") :
        (\E q \in 1..(r - 1) : NameOf(returned[r].log[k].path) \in ChangedIn(returned[q]))
            => returned[r].log[k].out

\* no query and no write of the calls failed
NothingFailed ==
    \A r \in 1..Len(returned) : \A k \in 1..Len(returned[r].log) : returned[r].log[k].ok

\* the second call writes none of the files the first one changed and counts
\* each of them as skipped for existing metadata
SecondRunSkipsTheChanged ==
    Len(returned) >= 2
        => /\ ChangedIn(returned[1]) \cap WriteIssuedIn(returned[2]) = {}
           /\ ChangedIn(returned[1]) \subseteq FoundTaggedIn(returned[2])
           /\ returned[2].stats.files_skipped_existing_metadata
                = Cardinality(FoundTaggedIn(returned[2]))

====
